---- MODULE Spec2Model ----
(***************************************************************************)
(* A model of the calculator engine of src/calculator/script.js.           *)
(*                                                                         *)
(* Strings are sequences of one-character strings, so that slice,          *)
(* startsWith, includes and concatenation are computed character by        *)
(* character.  JavaScript numbers are modelled as exact reduced fractions   *)
(* n/d (kind "num"), NaN (kind "nan") and null (kind "null").  Inside the   *)
(* numeric bounds below every value has fewer than 16 significant decimal  *)
(* digits after the rounding of formatDisplayNumber, which is the range in *)
(* which String(Number) prints the decimal value itself.  Spec explores    *)
(* every command in a small numeric range; SpecTiny explores digits,       *)
(* division, Equals and Clear in a wide one.                               *)
(*                                                                         *)
(* The end of the double range is modelled for powers of ten: kind "pow"   *)
(* is the double the code holds for 10^n (n is the decimal exponent; the   *)
(* rounding error of the double, a few units in the 16th digit, is not     *)
(* tracked) and kind "inf" is +/-Infinity (n is the sign).  SpecHuge       *)
(* explores multiplication of typed powers of ten up to the overflow.      *)
(***************************************************************************)
EXTENDS Integers, Sequences, FiniteSets, TLC

\* ----------------------------------------------------------------- bounds

\* Longest currentInput that a digit or a decimal point may still extend.
MaxLen == 3

\* Numeric range explored by Spec: reduced fractions n/d with |n| <= MaxNum
\* and d <= MaxDen.
MaxNum == 12
MaxDen == 10

\* Numeric range explored by SpecTiny (few commands, wide range).
TinyNum == 100
TinyDen == 10000000

\* Largest intermediate product any arithmetic step may form.
MaxProduct == 1000000000

\* SpecHuge: the operands are typed powers of ten of at most HugeLen
\* characters and of exponent HugeMin at least.
HugeLen == 151
HugeMin == 148

\* Digits the input adapter delivers in the explored runs.
Digits == {"0", "3"}
TinyDigits == {"0", "1"}

Operators == {"+", "-", "*", "/"}

\* ---------------------------------------------------------------- numbers

Abs(x) == IF x < 0 THEN -x ELSE x

RECURSIVE GCD(_, _)
GCD(a, b) == IF b = 0 THEN a ELSE GCD(b, a % b)

Null == [kind |-> "null", n |-> 0, d |-> 1]
NaN == [kind |-> "nan", n |-> 0, d |-> 1]

\* The number n/d (d # 0) as a reduced fraction with positive denominator.
Num(n, d) ==
  LET g == GCD(Abs(n), Abs(d))
      s == IF d < 0 THEN -1 ELSE 1
  IN [kind |-> "num", n |-> s * (n \div g), d |-> s * (d \div g)]

Zero == Num(0, 1)

\* Largest decimal exponent of a finite double (Number.MAX_VALUE is about
\* 1.797e308: 10^308 is finite, 10^309 is Infinity).
MaxExponent == 308

\* Largest exponent for which 10^e is kept as a fraction.
RECURSIVE ExactDigits(_)
ExactDigits(limit) == IF limit < 10 THEN 0 ELSE 1 + ExactDigits(limit \div 10)

Infinity == [kind |-> "inf", n |-> 1, d |-> 1]
NegInfinity == [kind |-> "inf", n |-> -1, d |-> 1]

\* The double for 10^e, e > ExactDigits(MaxProduct).
Pow10(e) == [kind |-> "pow", n |-> e, d |-> 1]

IsPowerOfTen(x) ==
  \/ x.kind = "pow"
  \/ x.kind = "num" /\ x.d = 1
       /\ \E k \in 0..ExactDigits(MaxProduct) : x.n = 10 ^ k

Exponent(x) ==
  IF x.kind = "pow" THEN x.n
  ELSE CHOOSE k \in 0..ExactDigits(MaxProduct) : x.n = 10 ^ k

\* 10^e as a double: overflow to Infinity beyond MaxExponent.
TenToThe(e) ==
  IF e > MaxExponent THEN Infinity
  ELSE IF e <= ExactDigits(MaxProduct) THEN Num(10 ^ e, 1)
  ELSE Pow10(e)

\* Number.isFinite
IsFinite(x) == x.kind \in {"num", "pow"}

\* x * y stays within MaxProduct.
SafeMul(x, y) ==
  IF x = 0 \/ y = 0 THEN TRUE ELSE Abs(x) <= MaxProduct \div Abs(y)

\* The arithmetic of performCalculation(a, operator, b) forms no product
\* beyond MaxProduct.
Computable(a, operator, b) ==
  /\ a.kind = "num" /\ b.kind = "num"
  /\ CASE operator \in {"+", "-"} ->
            SafeMul(a.n, b.d) /\ SafeMul(b.n, a.d) /\ SafeMul(a.d, b.d)
       [] operator = "*" -> SafeMul(a.n, b.n) /\ SafeMul(a.d, b.d)
       [] operator = "/" -> SafeMul(a.n, b.d) /\ SafeMul(a.d, b.n)
       [] OTHER -> TRUE

\* a * b has an operand or a value beyond the fractions.
IsHugeProduct(a, b) ==
  \/ a.kind \in {"pow", "inf"}
  \/ b.kind \in {"pow", "inf"}
  \/ IsPowerOfTen(a) /\ IsPowerOfTen(b)
       /\ Exponent(a) + Exponent(b) > ExactDigits(MaxProduct)

SignOf(x) == IF x.kind \in {"num", "inf"} /\ x.n < 0 THEN -1 ELSE 1

\* a * b for Infinity, zero and powers of ten: Infinity * 0 is NaN, and a
\* product beyond the double range is Infinity.
HugeProduct(a, b) ==
  IF a.kind = "inf" \/ b.kind = "inf"
  THEN (IF a = Zero \/ b = Zero THEN NaN
        ELSE IF SignOf(a) * SignOf(b) < 0 THEN NegInfinity ELSE Infinity)
  ELSE IF a = Zero \/ b = Zero THEN Zero
  ELSE TenToThe(Exponent(a) + Exponent(b))

\* The sum, difference and quotient are computed on fractions only; the
\* product also on the powers of ten and Infinity.
performCalculation(a, operator, b) ==
  CASE operator = "+" -> Num(a.n * b.d + b.n * a.d, a.d * b.d)
    [] operator = "-" -> Num(a.n * b.d - b.n * a.d, a.d * b.d)
    [] operator = "*" -> IF IsHugeProduct(a, b) THEN HugeProduct(a, b)
                         ELSE Num(a.n * b.n, a.d * b.d)
    [] operator = "/" -> IF b.n = 0 THEN NaN ELSE Num(a.n * b.d, a.d * b.n)
    [] OTHER -> NaN

\* ---------------------------------------------------------------- strings

ErrorString == <<"E", "r", "r", "o", "r">>

\* String(Infinity)
InfinityString == <<"I", "n", "f", "i", "n", "i", "t", "y">>

DigitChars == <<"0", "1", "2", "3", "4", "5", "6", "7", "8", "9">>

IsDigitChar(c) == \E i \in 1..10 : DigitChars[i] = c

DigitValue(c) == (CHOOSE i \in 1..10 : DigitChars[i] = c) - 1

\* String.prototype.includes / startsWith / slice(1) / slice(0, -1)
Includes(str, c) == \E i \in 1..Len(str) : str[i] = c
StartsWith(str, c) == Len(str) >= 1 /\ str[1] = c
SliceFrom1(str) == SubSeq(str, 2, Len(str))
SliceDropLast(str) == SubSeq(str, 1, Len(str) - 1)

\* First position of c in str, 0 when absent.
IndexOf(str, c) ==
  IF Includes(str, c) THEN CHOOSE i \in 1..Len(str) :
                               str[i] = c /\ \A j \in 1..(i - 1) : str[j] # c
  ELSE 0

AllDigits(str) == \A i \in 1..Len(str) : IsDigitChar(str[i])

\* Decimal digits (integers 0..9) of a natural number, most significant first.
RECURSIVE IntDigits(_)
IntDigits(n) == IF n < 10 THEN <<n>> ELSE Append(IntDigits(n \div 10), n % 10)

\* The natural number a sequence of digits denotes.
RECURSIVE DigitsValue(_)
DigitsValue(ds) ==
  IF ds = <<>> THEN 0
  ELSE DigitsValue(SubSeq(ds, 1, Len(ds) - 1)) * 10 + ds[Len(ds)]

ToChars(ds) == [i \in 1..Len(ds) |-> DigitChars[ds[i] + 1]]
FromChars(str) == [i \in 1..Len(str) |-> DigitValue(str[i])]
Zeros(k) == [i \in 1..k |-> "0"]

\* Number of zeros at the start / at the end of a digit sequence.
RECURSIVE LeadingZeros(_)
LeadingZeros(ds) ==
  IF ds = <<>> \/ ds[1] # 0 THEN 0 ELSE 1 + LeadingZeros(Tail(ds))

RECURSIVE TrailingZeros(_)
TrailingZeros(ds) ==
  IF ds = <<>> \/ ds[Len(ds)] # 0 THEN 0
  ELSE 1 + TrailingZeros(SubSeq(ds, 1, Len(ds) - 1))

\* ------------------------------------------------- String(number), Number(string)

\* The first k digits of the fraction r/d (0 <= r < d), by long division.
RECURSIVE FracDigits(_, _, _)
FracDigits(r, d, k) ==
  IF k = 0 THEN <<>>
  ELSE <<(r * 10) \div d>> \o FracDigits((r * 10) % d, d, k - 1)

\* A decimal numeral plus one, with carry.
RECURSIVE Increment(_)
Increment(ds) ==
  IF ds = <<>> THEN <<1>>
  ELSE IF ds[Len(ds)] = 9 THEN Append(Increment(SubSeq(ds, 1, Len(ds) - 1)), 0)
  ELSE [ds EXCEPT ![Len(ds)] = @ + 1]

\* Decimal places kept by formatDisplayNumber (the factor 1e12).
Places == 12
\* Further places read to decide the rounding.
GuardPlaces == 9
\* One half, and Number.EPSILON * 1e12, in units of 10^-GuardPlaces.
HalfUnit == 500000000
EpsilonUnits == 222045

\* Math.round((number + Number.EPSILON) * 1e12): the digits of the rounded
\* magnitude (integer part followed by Places decimals) and its sign.
\* Math.round rounds half towards +Infinity, so a negative value loses a
\* unit of magnitude unless its fraction exceeds one half plus epsilon.
RoundedDigits(number) ==
  LET m == Abs(number.n)
      neg == number.n < 0
      fd == FracDigits(m % number.d, number.d, Places + GuardPlaces)
      tail == DigitsValue(SubSeq(fd, Places + 1, Places + GuardPlaces))
      up == IF neg THEN tail - EpsilonUnits >= HalfUnit
                   ELSE tail + EpsilonUnits >= HalfUnit
      all == IntDigits(m \div number.d) \o SubSeq(fd, 1, Places)
  IN [neg |-> neg, digits |-> IF up THEN Increment(all) ELSE all]

\* String(x) for x = (+/-) digits / 10^Places (Number::toString, radix 10):
\* with s the k significant digits and x = 0.s * 10^n, plain notation for
\* -6 < n <= 21 and exponent notation otherwise.
NumberToString(neg, digits) ==
  LET lz == LeadingZeros(digits)
      tz == TrailingZeros(digits)
      s == SubSeq(digits, lz + 1, Len(digits) - tz)
      k == Len(s)
      n == Len(digits) - Places - lz
      e == n - 1
      mantissa == IF k = 1 THEN ToChars(s)
                  ELSE <<DigitChars[s[1] + 1], ".">> \o ToChars(SubSeq(s, 2, k))
      body == CASE k <= n /\ n <= 21 -> ToChars(s) \o Zeros(n - k)
                [] 0 < n /\ n < k /\ n <= 21 ->
                     ToChars(SubSeq(s, 1, n)) \o <<".">> \o ToChars(SubSeq(s, n + 1, k))
                [] -6 < n /\ n <= 0 -> <<"0", ".">> \o Zeros(-n) \o ToChars(s)
                [] OTHER -> mantissa \o <<"e", IF e < 0 THEN "-" ELSE "+">>
                                     \o ToChars(IntDigits(Abs(e)))
  IN IF lz = Len(digits) THEN <<"0">>
     ELSE (IF neg THEN <<"-">> ELSE <<>>) \o body

\* For a power of ten beyond the fractions, number * 1e12 overflows to
\* Infinity from 1e297 on, and Math.round(Infinity) / 1e12 is Infinity;
\* below that the string is the one of 10^n itself.
formatDisplayNumber(number) ==
  IF ~IsFinite(number) THEN ErrorString
  ELSE IF number.kind = "pow"
  THEN (IF number.n + Places > MaxExponent THEN InfinityString
        ELSE NumberToString(FALSE, <<1>> \o [i \in 1..(number.n + Places) |-> 0]))
  ELSE LET r == RoundedDigits(number) IN NumberToString(r.neg, r.digits)

\* The parts of a numeric string: sign, integer digits, fraction digits and
\* exponent (StrDecimalLiteral).
StringParts(str) ==
  LET neg == StartsWith(str, "-")
      body == IF neg THEN SliceFrom1(str) ELSE str
      ePos == IndexOf(body, "e")
      mant == IF ePos = 0 THEN body ELSE SubSeq(body, 1, ePos - 1)
      expo == IF ePos = 0 THEN <<>> ELSE SubSeq(body, ePos + 1, Len(body))
      eNeg == StartsWith(expo, "-")
      eDigits == IF StartsWith(expo, "-") \/ StartsWith(expo, "+")
                 THEN SliceFrom1(expo) ELSE expo
      dot == IndexOf(mant, ".")
  IN [neg |-> neg,
      int |-> IF dot = 0 THEN mant ELSE SubSeq(mant, 1, dot - 1),
      frac |-> IF dot = 0 THEN <<>> ELSE SubSeq(mant, dot + 1, Len(mant)),
      hasExp |-> ePos # 0, eNeg |-> eNeg, eDigits |-> eDigits]

IsNumeric(str) ==
  LET p == StringParts(str)
  IN /\ AllDigits(p.int) /\ AllDigits(p.frac)
     /\ Len(p.int) + Len(p.frac) >= 1
     /\ p.hasExp => (AllDigits(p.eDigits) /\ Len(p.eDigits) >= 1)

\* The significant mantissa digits of a numeric string and its power of ten.
Mantissa(p) ==
  LET all == FromChars(p.int \o p.frac)
  IN SubSeq(all, LeadingZeros(all) + 1, Len(all))

Shift(p) ==
  (IF p.hasExp THEN (IF p.eNeg THEN -1 ELSE 1) * DigitsValue(FromChars(p.eDigits))
   ELSE 0) - Len(p.frac)

\* The value of the string can be formed without leaving MaxProduct.
InRange(str) ==
  IsNumeric(str) =>
    LET p == StringParts(str)
    IN /\ Len(Mantissa(p)) <= 9
       /\ Len(p.eDigits) <= 1
       /\ Abs(Shift(p)) <= 9
       /\ Shift(p) >= 0 => SafeMul(DigitsValue(Mantissa(p)), 10 ^ Shift(p))

\* "1" followed by more zeros than a fraction holds.
IsPowerOfTenNumeral(str) ==
  /\ Len(str) > ExactDigits(MaxProduct) + 1
  /\ str[1] = "1"
  /\ \A i \in 2..Len(str) : str[i] = "0"

\* Number(str)
ToNumber(str) ==
  IF str = InfinityString THEN Infinity
  ELSE IF str = <<"-">> \o InfinityString THEN NegInfinity
  ELSE IF ~IsNumeric(str) THEN NaN
  ELSE IF IsPowerOfTenNumeral(str)
  THEN (IF Len(str) - 1 > MaxExponent THEN Infinity ELSE Pow10(Len(str) - 1))
  ELSE LET p == StringParts(str)
           m == (IF p.neg THEN -1 ELSE 1) * DigitsValue(Mantissa(p))
           sh == Shift(p)
       IN IF sh >= 0 THEN Num(m * 10 ^ sh, 1) ELSE Num(m, 10 ^ (-sh))

\* ------------------------------------------------------- calculator state

VARIABLES
  calculatorState,  \* the record of script.js: the six fields of the engine
  script,           \* history: the expression entered since the last Clear
  stopwatchState,   \* the record of the stopwatch's script.js
  page,             \* the stopwatch's clock, visibility, frames and DOM
  watch,            \* history: what the stopwatch has measured since Reset
  weatherDom,       \* the weather page's DOM
  pipelines,        \* the weather page's async functions at an await
  weatherLog        \* history: how the weather page's last run ended

calculatorVars == <<calculatorState, script>>
stopwatchVars == <<stopwatchState, page, watch>>
weatherVars == <<weatherDom, pipelines, weatherLog>>
vars == <<calculatorVars, stopwatchVars, weatherVars>>

NoOperator == "null"

InitialState ==
  [firstOperand |-> Null, secondOperand |-> Null, operator |-> NoOperator,
   currentInput |-> <<"0">>, hasCalculated |-> FALSE, isError |-> FALSE]

checkErrorState(s) == s.isError \/ s.currentInput = ErrorString

getCurrentInputAsNumber(s) ==
  IF s.currentInput = <<".">> \/ s.currentInput = <<"-", ".">> THEN Zero
  ELSE ToNumber(s.currentInput)

\* The values that updateDisplay writes: the expression line, the result
\* line and the error styling.
updateDisplay(s) ==
  [expression |->
     (IF s.firstOperand # Null THEN <<formatDisplayNumber(s.firstOperand)>> ELSE <<>>)
     \o (IF s.operator # NoOperator THEN <<<<s.operator>>>> ELSE <<>>)
     \o (IF s.secondOperand # Null /\ ~s.hasCalculated
         THEN <<formatDisplayNumber(s.secondOperand)>> ELSE <<>>),
   result |-> s.currentInput,
   error |-> s.currentInput = ErrorString]

\* resetStateForNewInput resetting after an error only.
resetStateForNewInput_ErrorOnly(s) ==
  IF checkErrorState(s)
  THEN [firstOperand |-> Null, secondOperand |-> Null, operator |-> NoOperator,
        currentInput |-> <<"0">>, hasCalculated |-> FALSE, isError |-> FALSE]
  ELSE s

resetStateForNewInput(s) ==
  IF checkErrorState(s) \/ s.hasCalculated
  THEN [firstOperand |-> Null, secondOperand |-> Null, operator |-> NoOperator,
        currentInput |-> <<"0">>, hasCalculated |-> FALSE, isError |-> FALSE]
  ELSE s

\* appendDigit appending to "0" as to any other input.
appendDigit_AppendsToZero(s, digit) ==
  LET r == resetStateForNewInput(s)
  IN [r EXCEPT !.currentInput = Append(@, digit)]

appendDigit(s, digit) ==
  LET r == resetStateForNewInput(s)
  IN IF r.currentInput = <<"0">> THEN [r EXCEPT !.currentInput = <<digit>>]
     ELSE IF r.currentInput = <<"-", "0">>
          THEN [r EXCEPT !.currentInput = <<"-", digit>>]
     ELSE [r EXCEPT !.currentInput = Append(@, digit)]

\* addDecimalPoint appending whatever the input contains.
addDecimalPoint_AlwaysAppends(s) ==
  LET r == resetStateForNewInput(s)
  IN [r EXCEPT !.currentInput = Append(@, ".")]

addDecimalPoint(s) ==
  LET r == resetStateForNewInput(s)
  IN IF ~Includes(r.currentInput, ".")
     THEN [r EXCEPT !.currentInput = Append(@, ".")]
     ELSE r

\* toggleSign without its error check.
toggleSign_NoErrorCheck(s) ==
  IF s.currentInput = <<"0">> \/ s.currentInput = <<"0", ".">> THEN s
  ELSE [s EXCEPT !.currentInput =
          IF StartsWith(@, "-") THEN SliceFrom1(@) ELSE <<"-">> \o @]

toggleSign(s) ==
  IF checkErrorState(s) THEN s
  ELSE IF s.currentInput = <<"0">> \/ s.currentInput = <<"0", ".">> THEN s
  ELSE [s EXCEPT !.currentInput =
          IF StartsWith(@, "-") THEN SliceFrom1(@) ELSE <<"-">> \o @]

\* removeLastCharacter without its error check.
removeLastCharacter_NoErrorCheck(s) ==
  IF s.hasCalculated THEN s
  ELSE LET currentInput == s.currentInput
       IN IF Len(currentInput) <= 1
             \/ (Len(currentInput) = 2 /\ StartsWith(currentInput, "-"))
          THEN [s EXCEPT !.currentInput = <<"0">>]
          ELSE IF SliceDropLast(currentInput) = <<"-">>
               THEN [s EXCEPT !.currentInput = <<"0">>]
               ELSE [s EXCEPT !.currentInput = SliceDropLast(currentInput)]

\* removeLastCharacter editing a displayed result as well.
removeLastCharacter_EditsResult(s) ==
  IF checkErrorState(s) THEN s
  ELSE LET currentInput == s.currentInput
       IN IF Len(currentInput) <= 1
             \/ (Len(currentInput) = 2 /\ StartsWith(currentInput, "-"))
          THEN [s EXCEPT !.currentInput = <<"0">>]
          ELSE IF SliceDropLast(currentInput) = <<"-">>
               THEN [s EXCEPT !.currentInput = <<"0">>]
               ELSE [s EXCEPT !.currentInput = SliceDropLast(currentInput)]

removeLastCharacter(s) ==
  IF checkErrorState(s) THEN s
  ELSE IF s.hasCalculated THEN s
  ELSE LET currentInput == s.currentInput
       IN IF Len(currentInput) <= 1
             \/ (Len(currentInput) = 2 /\ StartsWith(currentInput, "-"))
          THEN [s EXCEPT !.currentInput = <<"0">>]
          ELSE IF SliceDropLast(currentInput) = <<"-">>
               THEN [s EXCEPT !.currentInput = <<"0">>]
               ELSE [s EXCEPT !.currentInput = SliceDropLast(currentInput)]

\* clearCalculator forgetting secondOperand.
clearCalculator_KeepsSecondOperand(s) ==
  [s EXCEPT !.firstOperand = Null, !.operator = NoOperator,
            !.currentInput = <<"0">>, !.hasCalculated = FALSE,
            !.isError = FALSE]

clearCalculator(s) ==
  [s EXCEPT !.firstOperand = Null, !.secondOperand = Null,
            !.operator = NoOperator, !.currentInput = <<"0">>,
            !.hasCalculated = FALSE, !.isError = FALSE]

\* The error entry forgetting the flag.
EnterError_NoFlag(s) ==
  [s EXCEPT !.currentInput = ErrorString,
            !.firstOperand = Null, !.secondOperand = Null,
            !.operator = NoOperator]

\* The assignments made when a result is not finite.
EnterError(s) ==
  [s EXCEPT !.currentInput = ErrorString, !.isError = TRUE,
            !.firstOperand = Null, !.secondOperand = Null,
            !.operator = NoOperator]

\* selectOperator leaving the pending operator in place when a chained
\* calculation fails.
selectOperator_ErrorKeepsOperator(s, operator) ==
  IF checkErrorState(s) THEN s
  ELSE
    LET inputNumber == getCurrentInputAsNumber(s)
        c == IF s.hasCalculated
             THEN [s EXCEPT !.hasCalculated = FALSE, !.secondOperand = Null]
             ELSE s
    IN IF c.firstOperand = Null
       THEN [c EXCEPT !.firstOperand = inputNumber, !.operator = operator,
                      !.currentInput = <<"0">>]
       ELSE IF c.operator # NoOperator /\ c.currentInput # <<"0">>
       THEN LET result == performCalculation(c.firstOperand, c.operator, inputNumber)
            IN IF ~IsFinite(result)
               THEN [c EXCEPT !.currentInput = ErrorString, !.isError = TRUE,
                              !.firstOperand = Null, !.secondOperand = Null]
               ELSE [c EXCEPT !.firstOperand = result, !.secondOperand = Null,
                              !.operator = operator, !.currentInput = <<"0">>]
       ELSE [c EXCEPT !.operator = operator]

\* selectOperator keeping secondOperand when it continues after Equals.
selectOperator_KeepsSecondOperand(s, operator) ==
  IF checkErrorState(s) THEN s
  ELSE
    LET inputNumber == getCurrentInputAsNumber(s)
        c == IF s.hasCalculated THEN [s EXCEPT !.hasCalculated = FALSE] ELSE s
    IN IF c.firstOperand = Null
       THEN [c EXCEPT !.firstOperand = inputNumber, !.operator = operator,
                      !.currentInput = <<"0">>]
       ELSE IF c.operator # NoOperator /\ c.currentInput # <<"0">>
       THEN LET result == performCalculation(c.firstOperand, c.operator, inputNumber)
            IN IF ~IsFinite(result) THEN EnterError(c)
               ELSE [c EXCEPT !.firstOperand = result, !.secondOperand = Null,
                              !.operator = operator, !.currentInput = <<"0">>]
       ELSE [c EXCEPT !.operator = operator]

\* selectOperator chaining whenever an operator is pending.
selectOperator_ChainsOnZero(s, operator) ==
  IF checkErrorState(s) THEN s
  ELSE
    LET inputNumber == getCurrentInputAsNumber(s)
        c == IF s.hasCalculated
             THEN [s EXCEPT !.hasCalculated = FALSE, !.secondOperand = Null]
             ELSE s
    IN IF c.firstOperand = Null
       THEN [c EXCEPT !.firstOperand = inputNumber, !.operator = operator,
                      !.currentInput = <<"0">>]
       ELSE IF c.operator # NoOperator
       THEN LET result == performCalculation(c.firstOperand, c.operator, inputNumber)
            IN IF ~IsFinite(result) THEN EnterError(c)
               ELSE [c EXCEPT !.firstOperand = result, !.secondOperand = Null,
                              !.operator = operator, !.currentInput = <<"0">>]
       ELSE [c EXCEPT !.operator = operator]

selectOperator(s, operator) ==
  IF checkErrorState(s) THEN s
  ELSE
    LET inputNumber == getCurrentInputAsNumber(s)
        \* continue from the result after equals
        c == IF s.hasCalculated
             THEN [s EXCEPT !.hasCalculated = FALSE, !.secondOperand = Null]
             ELSE s
    IN IF c.firstOperand = Null
       THEN [c EXCEPT !.firstOperand = inputNumber, !.operator = operator,
                      !.currentInput = <<"0">>]
       ELSE IF c.operator # NoOperator /\ c.currentInput # <<"0">>
       THEN \* chain calculations
            LET result == performCalculation(c.firstOperand, c.operator, inputNumber)
            IN IF ~IsFinite(result) THEN EnterError(c)
               ELSE [c EXCEPT !.firstOperand = result, !.secondOperand = Null,
                              !.operator = operator, !.currentInput = <<"0">>]
       ELSE \* change the operator without entering the next number
            [c EXCEPT !.operator = operator]

\* The right-hand operand read from the display on every Equals.
EqualsOperand_AlwaysInput(s) == getCurrentInputAsNumber(s)

\* The right-hand operand calculateResult computes with.
EqualsOperand(s) ==
  IF s.hasCalculated
  THEN (IF s.secondOperand # Null THEN s.secondOperand
        ELSE getCurrentInputAsNumber(s))
  ELSE getCurrentInputAsNumber(s)

\* calculateResult testing the result for NaN only after storing it.
calculateResult_NoFiniteCheck(s) ==
  IF checkErrorState(s) THEN s
  ELSE IF s.operator = NoOperator \/ s.firstOperand = Null THEN s
  ELSE
    LET secondOperand == EqualsOperand(s)
        result == performCalculation(s.firstOperand, s.operator, secondOperand)
    IN [s EXCEPT !.secondOperand = secondOperand, !.firstOperand = result,
                 !.currentInput = formatDisplayNumber(result),
                 !.hasCalculated = TRUE]

\* calculateResult not keeping the operand it used.
calculateResult_DropsSecondOperand(s) ==
  IF checkErrorState(s) THEN s
  ELSE IF s.operator = NoOperator \/ s.firstOperand = Null THEN s
  ELSE
    LET secondOperand == EqualsOperand(s)
        result == performCalculation(s.firstOperand, s.operator, secondOperand)
    IN IF ~IsFinite(result) THEN EnterError(s)
       ELSE [s EXCEPT !.firstOperand = result,
                      !.currentInput = formatDisplayNumber(result),
                      !.hasCalculated = TRUE]

calculateResult(s) ==
  IF checkErrorState(s) THEN s
  ELSE IF s.operator = NoOperator \/ s.firstOperand = Null THEN s
  ELSE
    LET secondOperand == EqualsOperand(s)
        result == performCalculation(s.firstOperand, s.operator, secondOperand)
    IN IF ~IsFinite(result) THEN EnterError(s)
       ELSE [s EXCEPT !.secondOperand = secondOperand, !.firstOperand = result,
                      !.currentInput = formatDisplayNumber(result),
                      !.hasCalculated = TRUE]

\* ------------------------------------------------- the explored numeric range

Limits == [num |-> MaxNum, den |-> MaxDen]
TinyLimits == [num |-> TinyNum, den |-> TinyDen]

Within(x, lim) == x.kind = "num" => (Abs(x.n) <= lim.num /\ x.d <= lim.den)

\* The number read from currentInput lies in the explored range.
InputWithin(s, lim) ==
  /\ InRange(s.currentInput)
  /\ getCurrentInputAsNumber(s).kind = "num"
  /\ Within(getCurrentInputAsNumber(s), lim)

\* a (operator) b can be evaluated and stays in the explored range.
ResultWithin(a, operator, b, lim) ==
  /\ Computable(a, operator, b)
  /\ Within(performCalculation(a, operator, b), lim)

\* selectOperator stays in the explored range.
OperatorWithin(s, lim) ==
  IF checkErrorState(s) THEN TRUE
  ELSE IF ~InputWithin(s, lim) THEN FALSE
  ELSE IF s.firstOperand # Null /\ s.operator # NoOperator /\ s.currentInput # <<"0">>
       THEN ResultWithin(s.firstOperand, s.operator, getCurrentInputAsNumber(s), lim)
       ELSE TRUE

\* calculateResult stays in the explored range.
EqualsWithin(s, lim) ==
  IF checkErrorState(s) THEN TRUE
  ELSE IF s.operator = NoOperator \/ s.firstOperand = Null THEN TRUE
  ELSE IF ~(s.hasCalculated /\ s.secondOperand # Null) /\ ~InputWithin(s, lim)
       THEN FALSE
       ELSE ResultWithin(s.firstOperand, s.operator, EqualsOperand(s), lim)

\* The range explored by SpecHuge: powers of ten from 10^HugeMin on, or the
\* Infinity read from a displayed "Infinity".
HugeOperand(x) ==
  IF x.kind = "inf" THEN TRUE
  ELSE IF IsPowerOfTen(x) THEN Exponent(x) >= HugeMin
  ELSE FALSE

\* currentInput is "0" or a typed power of ten of at most HugeLen characters.
HugeInput(str) ==
  IF Len(str) > HugeLen THEN FALSE
  ELSE IF str = <<"0">> THEN TRUE
  ELSE str[1] = "1" /\ \A i \in 2..Len(str) : str[i] = "0"

\* selectOperator stays in the range of SpecHuge.
HugeOperatorWithin(s) ==
  IF checkErrorState(s) THEN TRUE
  ELSE IF s.currentInput = <<"0">> THEN s.firstOperand # Null
  ELSE HugeOperand(getCurrentInputAsNumber(s))

\* calculateResult stays in the range of SpecHuge, and its result is
\* Infinity or is displayed as "Infinity" (results below 1e297 are displayed
\* with the rounding error of the double and are not explored).
HugeEqualsWithin(s) ==
  IF checkErrorState(s) THEN TRUE
  ELSE IF s.operator = NoOperator \/ s.firstOperand = Null THEN TRUE
  ELSE IF ~HugeOperand(EqualsOperand(s)) THEN FALSE
  ELSE LET result == performCalculation(s.firstOperand, s.operator, EqualsOperand(s))
       IN IF result.kind = "pow" THEN result.n + Places > MaxExponent
          ELSE ~IsFinite(result)

\* ---------------------------------------------------- the entered expression

\* script records the expression typed since the last Clear as long as it has
\* the shape  a op b op c ... = = ...  and is "other" afterwards:
\*   phase   "a": entering the first operand;  "b": entering an operand after
\*           an operator;  "eq": after Equals;  "other": any other history
\*   entry   what was entered since the phase began: "none", "edit" (decimal
\*           point, sign or backspace only) or "digit" (at least one digit)
\*   acc, op the left-to-right value of the operands before the pending
\*           operator, and that operator
\*   b       the operand the first Equals was pressed with
\*   ops     how many operators were pressed; an expression of more than
\*           MaxOps operators is "other"
\*   equals  how many times Equals was pressed (MaxEquals stands for that
\*           many or more)
\*   plain   only Digit commands were dispatched since the fresh state
\*   typed   while plain: the digits typed, concatenated, without the zeros
\*           in front of another digit
MaxOps == 2
MaxEquals == 3

FreshScript ==
  [phase |-> "a", entry |-> "none", acc |-> Null, op |-> NoOperator,
   b |-> Null, ops |-> 0, equals |-> 0, plain |-> TRUE, typed |-> <<>>]

OtherScript == [FreshScript EXCEPT !.phase = "other", !.plain = FALSE]

\* A string of digits without the zeros in front of another digit.
RECURSIVE CollapseZeros(_)
CollapseZeros(str) ==
  IF Len(str) >= 2 /\ str[1] = "0" THEN CollapseZeros(Tail(str)) ELSE str

Min(x, y) == IF x < y THEN x ELSE y

ScriptAfterDigit(sc, digit) ==
  IF sc.phase \in {"a", "b"}
  THEN [sc EXCEPT !.entry = "digit",
                  !.typed = IF sc.plain THEN CollapseZeros(Append(@, digit))
                            ELSE <<>>]
  ELSE OtherScript

ScriptAfterEdit(sc) ==
  IF sc.phase \in {"a", "b"}
  THEN [sc EXCEPT !.entry = IF @ = "none" THEN "edit" ELSE @,
                  !.plain = FALSE, !.typed = <<>>]
  ELSE OtherScript

ScriptAfterOperator(sc, s, operator, lim) ==
  IF sc.entry # "digit" \/ ~InputWithin(s, lim) THEN OtherScript
  ELSE IF sc.phase = "a"
  THEN [sc EXCEPT !.phase = "b", !.entry = "none", !.ops = 1,
                  !.acc = getCurrentInputAsNumber(s), !.op = operator,
                  !.plain = FALSE, !.typed = <<>>]
  ELSE IF sc.phase = "b" /\ sc.ops < MaxOps
          /\ ResultWithin(sc.acc, sc.op, getCurrentInputAsNumber(s), lim)
          /\ IsFinite(performCalculation(sc.acc, sc.op, getCurrentInputAsNumber(s)))
  THEN [sc EXCEPT !.entry = "none", !.ops = @ + 1,
                  !.acc = performCalculation(sc.acc, sc.op, getCurrentInputAsNumber(s)),
                  !.op = operator]
  ELSE OtherScript

ScriptAfterEquals(sc, s, lim) ==
  IF sc.phase = "b" /\ sc.entry = "digit" /\ InputWithin(s, lim)
     /\ ResultWithin(sc.acc, sc.op, getCurrentInputAsNumber(s), lim)
     /\ IsFinite(performCalculation(sc.acc, sc.op, getCurrentInputAsNumber(s)))
  THEN [sc EXCEPT !.phase = "eq", !.entry = "none", !.equals = 1,
                  !.b = getCurrentInputAsNumber(s),
                  !.acc = performCalculation(sc.acc, sc.op, getCurrentInputAsNumber(s))]
  ELSE IF sc.phase = "eq" /\ ResultWithin(sc.acc, sc.op, sc.b, lim)
          /\ IsFinite(performCalculation(sc.acc, sc.op, sc.b))
  THEN [sc EXCEPT !.equals = Min(@ + 1, MaxEquals),
                  !.acc = performCalculation(sc.acc, sc.op, sc.b)]
  ELSE OtherScript

\* ===================================================================
\* The stopwatch of src/stopwatch/script.js.
\*
\* performance.now() is a discrete clock in milliseconds (page.now); a
\* handler runs at one instant.  page holds what the handlers read and write
\* outside stopwatchState: the clock, document.hidden, the animation frames
\* requested and not yet run or cancelled, and the three DOM properties the
\* script assigns.  Handlers are operators on the pair of both records.

\* Amounts by which the clock advances between events, and its last instant.
ClockSteps == {5, 10}
MaxClock == 30

\* Most animation frames that may be pending in an explored state.
MaxFrames == 2

\* Keys delivered to the keydown handler.
Keys == {" ", "r", "R", "x"}

InitialStopwatchState ==
  [isRunning |-> FALSE, startPerformanceTime |-> 0, accumulatedTime |-> 0,
   rafId |-> 0]

\* String(n).padStart(2, "0")
PadStart2(n) ==
  LET str == ToChars(IntDigits(n))
  IN IF Len(str) < 2 THEN Zeros(2 - Len(str)) \o str ELSE str

formatTime(milliseconds) ==
  LET totalCentiseconds == milliseconds \div 10
      centiseconds == totalCentiseconds % 100
      totalSeconds == totalCentiseconds \div 100
      seconds == totalSeconds % 60
      totalMinutes == totalSeconds \div 60
      minutes == totalMinutes % 60
      hours == totalMinutes \div 60
  IN PadStart2(hours) \o <<":">> \o PadStart2(minutes) \o <<":">>
     \o PadStart2(seconds) \o <<".">> \o PadStart2(centiseconds)

\* updateDisplay(milliseconds) of the stopwatch
updateTimeDisplay(w, milliseconds) ==
  [w EXCEPT !.page.time = formatTime(milliseconds)]

updateButtonStates(w) ==
  [w EXCEPT !.page.startPause =
              IF w.state.isRunning THEN "Pause"
              ELSE IF w.state.accumulatedTime > 0 THEN "Resume"
              ELSE "Start",
            !.page.resetDisabled =
              w.state.isRunning \/ w.state.accumulatedTime = 0]

\* The handle requestAnimationFrame returns: a positive integer that no
\* pending frame has.  The script keeps handles in rafId only, so the least
\* integer that is neither pending nor in rafId stands for the next handle.
FrameHandle(w) ==
  CHOOSE id \in 1..(Cardinality(w.page.frames) + 2) :
    /\ id \notin w.page.frames /\ id # w.state.rafId
    /\ \A j \in 1..(id - 1) : j \in w.page.frames \/ j = w.state.rafId

requestAnimationFrame(w) ==
  [w EXCEPT !.page.frames = @ \cup {FrameHandle(w)}]

cancelAnimationFrame(w, id) ==
  [w EXCEPT !.page.frames = @ \ {id}]

animationTick(w) ==
  IF ~w.state.isRunning THEN w
  ELSE LET currentTime == w.state.accumulatedTime
                            + (w.page.now - w.state.startPerformanceTime)
           shown == updateTimeDisplay(w, currentTime)
       IN [requestAnimationFrame(shown) EXCEPT !.state.rafId = FrameHandle(shown)]

startStopwatch(w) ==
  IF w.state.isRunning THEN w
  ELSE LET started == [w EXCEPT !.state.isRunning = TRUE,
                                !.state.startPerformanceTime = w.page.now]
           looped == IF started.state.rafId = 0
                     THEN [requestAnimationFrame(started) EXCEPT
                             !.state.rafId = FrameHandle(started)]
                     ELSE started
       IN updateButtonStates(looped)

\* pauseStopwatch leaving the requested frame pending.
pauseStopwatch_KeepsFrame(w) ==
  IF ~w.state.isRunning THEN w
  ELSE LET summed == [w EXCEPT !.state.isRunning = FALSE, !.state.rafId = 0,
                               !.state.accumulatedTime =
                                 @ + (w.page.now - w.state.startPerformanceTime)]
       IN updateButtonStates(updateTimeDisplay(summed, summed.state.accumulatedTime))

\* pauseStopwatch updating the buttons before the time is accumulated.
pauseStopwatch_ButtonsFirst(w) ==
  IF ~w.state.isRunning THEN w
  ELSE LET stopped == [w EXCEPT !.state.isRunning = FALSE]
           cancelled == IF stopped.state.rafId # 0
                        THEN cancelAnimationFrame(stopped, stopped.state.rafId)
                        ELSE stopped
           buttons == updateButtonStates(cancelled)
           summed == [buttons EXCEPT !.state.rafId = 0,
                        !.state.accumulatedTime =
                          @ + (w.page.now - w.state.startPerformanceTime)]
       IN updateTimeDisplay(summed, summed.state.accumulatedTime)

pauseStopwatch(w) ==
  IF ~w.state.isRunning THEN w
  ELSE LET stopped == [w EXCEPT !.state.isRunning = FALSE]
           cancelled == IF stopped.state.rafId # 0
                        THEN cancelAnimationFrame(stopped, stopped.state.rafId)
                        ELSE stopped
           summed == [cancelled EXCEPT !.state.rafId = 0,
                        !.state.accumulatedTime =
                          @ + (w.page.now - w.state.startPerformanceTime)]
       IN updateButtonStates(updateTimeDisplay(summed, summed.state.accumulatedTime))

\* resetStopwatch without its isRunning check.
resetStopwatch_WhileRunning(w) ==
  LET cancelled == IF w.state.rafId # 0
                   THEN cancelAnimationFrame(w, w.state.rafId) ELSE w
      zeroed == [cancelled EXCEPT !.state.rafId = 0,
                                  !.state.startPerformanceTime = 0,
                                  !.state.accumulatedTime = 0]
  IN updateButtonStates(updateTimeDisplay(zeroed, 0))

resetStopwatch(w) ==
  IF w.state.isRunning THEN w
  ELSE LET cancelled == IF w.state.rafId # 0
                        THEN cancelAnimationFrame(w, w.state.rafId) ELSE w
           zeroed == [cancelled EXCEPT !.state.rafId = 0,
                                       !.state.startPerformanceTime = 0,
                                       !.state.accumulatedTime = 0]
       IN updateButtonStates(updateTimeDisplay(zeroed, 0))

toggleStartPause(w) ==
  IF w.state.isRunning THEN pauseStopwatch(w) ELSE startStopwatch(w)

\* key.toLowerCase()
ToLowerCase(key) == IF key = "R" THEN "r" ELSE key

keydownHandler(w, key) ==
  IF key = " " THEN toggleStartPause(w)
  ELSE IF ToLowerCase(key) = "r" THEN resetStopwatch(w)
  ELSE w

\* The visibilitychange handler never requesting a frame again.
visibilityChangeHandler_NoRestart(w) ==
  IF w.page.hidden /\ w.state.isRunning
  THEN LET summed == [w EXCEPT !.state.accumulatedTime =
                                 @ + (w.page.now - w.state.startPerformanceTime),
                               !.state.startPerformanceTime = w.page.now]
           shown == updateTimeDisplay(summed, summed.state.accumulatedTime)
       IN IF shown.state.rafId # 0
          THEN [cancelAnimationFrame(shown, shown.state.rafId) EXCEPT !.state.rafId = 0]
          ELSE shown
  ELSE w

\* The visibilitychange handler keeping the start time when the page is
\* shown again.
visibilityChangeHandler_KeepsStartTime(w) ==
  IF w.page.hidden /\ w.state.isRunning
  THEN LET summed == [w EXCEPT !.state.accumulatedTime =
                                 @ + (w.page.now - w.state.startPerformanceTime),
                               !.state.startPerformanceTime = w.page.now]
           shown == updateTimeDisplay(summed, summed.state.accumulatedTime)
       IN IF shown.state.rafId # 0
          THEN [cancelAnimationFrame(shown, shown.state.rafId) EXCEPT !.state.rafId = 0]
          ELSE shown
  ELSE IF ~w.page.hidden /\ w.state.isRunning /\ w.state.rafId = 0
  THEN [requestAnimationFrame(w) EXCEPT !.state.rafId = FrameHandle(w)]
  ELSE w

\* The visibilitychange handler, run after document.hidden has changed.
visibilityChangeHandler(w) ==
  IF w.page.hidden /\ w.state.isRunning
  THEN LET summed == [w EXCEPT !.state.accumulatedTime =
                                 @ + (w.page.now - w.state.startPerformanceTime),
                               !.state.startPerformanceTime = w.page.now]
           shown == updateTimeDisplay(summed, summed.state.accumulatedTime)
       IN IF shown.state.rafId # 0
          THEN [cancelAnimationFrame(shown, shown.state.rafId) EXCEPT !.state.rafId = 0]
          ELSE shown
  ELSE IF ~w.page.hidden /\ w.state.isRunning /\ w.state.rafId = 0
  THEN LET restarted == [w EXCEPT !.state.startPerformanceTime = w.page.now]
       IN [requestAnimationFrame(restarted) EXCEPT
             !.state.rafId = FrameHandle(restarted)]
  ELSE w

\* The page after the script has run: updateDisplay(0), updateButtonStates().
InitialPage ==
  updateButtonStates(updateTimeDisplay(
    [state |-> InitialStopwatchState,
     page |-> [now |-> 0, hidden |-> FALSE, frames |-> {}, time |-> <<>>,
               startPause |-> "", resetDisabled |-> FALSE]], 0)).page

\* watch records, for the run since the last reset:
\*   ran          the time the stopwatch was running while the page was visible
\*   visibleOnly  start and pause were invoked only while the page was visible
\*   refreshed    animationTick has written the time since the clock advanced
InitialWatch == [ran |-> 0, visibleOnly |-> TRUE, refreshed |-> TRUE]

\* ===================================================================
\* The weather page of src/weather-api/script.js.
\*
\* weatherDom holds the DOM properties the script reads and writes.  An
\* async function that has reached an await is a record of pipelines: what
\* it awaits, for which place, and on whose behalf.  A request completes in
\* two steps, as fetchFromAPI awaits them: the response (or the rejection of
\* fetch), then its body.  Texts built from parts are sequences of the
\* parts; the empty text is the empty sequence.

\* Most pipelines that may be in progress in an explored state.
MaxPipelines == 2

\* Most locations a geocoding answer holds in an explored state.
MaxPlaces == 2

\* Values of the city input: empty, blank, too short, valid, padded, invalid.
Cities ==
  { <<>>, <<" ">>, <<"a">>, <<"P", "a">>, <<" ", "P", "a">>, <<"P", "1">> }

\* The characters /^[a-zA-ZÀ-ž\s.,'-]+$/ accepts, among those of Cities.
FormatChars == {"a", "P", " ", ".", ",", "'", "-"}

RECURSIVE TrimStart(_)
TrimStart(str) ==
  IF str # <<>> /\ Head(str) = " " THEN TrimStart(Tail(str)) ELSE str

RECURSIVE TrimEnd(_)
TrimEnd(str) ==
  IF str # <<>> /\ str[Len(str)] = " "
  THEN TrimEnd(SubSeq(str, 1, Len(str) - 1)) ELSE str

\* city.trim()
Trim(str) == TrimEnd(TrimStart(str))

InitialDom ==
  [status |-> "", searchBtnDisabled |-> FALSE, cityInputDisabled |-> FALSE,
   placeSelectDisabled |-> FALSE, cityInput |-> <<>>,
   errorText |-> <<>>, errorHidden |-> TRUE,
   placeSelectHidden |-> TRUE, options |-> <<>>, selectedIndex |-> 0,
   weatherCardHidden |-> TRUE, cityName |-> <<>>,
   forecastHidden |-> TRUE, forecastGrid |-> 0]

setLoadingState(d, isLoading, message) ==
  [d EXCEPT !.status = message, !.searchBtnDisabled = isLoading,
            !.cityInputDisabled = isLoading, !.placeSelectDisabled = isLoading]

displayError(d, message) ==
  [d EXCEPT !.errorText = message, !.errorHidden = FALSE]

clearError(d) == [d EXCEPT !.errorText = <<>>, !.errorHidden = TRUE]

hideResults(d) ==
  [d EXCEPT !.weatherCardHidden = TRUE, !.forecastHidden = TRUE,
            !.forecastGrid = 0]

showPlaceSelect(d, visible) ==
  IF visible THEN [d EXCEPT !.placeSelectHidden = FALSE]
  ELSE [d EXCEPT !.placeSelectHidden = TRUE, !.options = <<>>,
                 !.selectedIndex = 0]

validateCityInput(city) ==
  LET trimmed == Trim(city)
  IN IF trimmed = <<>>
     THEN [valid |-> FALSE, city |-> <<>>,
           error |-> <<"Please enter a city or province name.">>]
     ELSE IF Len(trimmed) < 2
     THEN [valid |-> FALSE, city |-> <<>>,
           error |-> <<"Please enter at least 2 characters.">>]
     ELSE IF ~(\A i \in 1..Len(trimmed) : trimmed[i] \in FormatChars)
     THEN [valid |-> FALSE, city |-> <<>>,
           error |-> <<"Please use letters and common punctuation only.">>]
     ELSE [valid |-> TRUE, city |-> trimmed, error |-> <<>>]

\* ---- what the network delivers

\* The outcome of await fetch(url): a rejection with the browser's message,
\* which may be empty, or a response.
Rejection(message) ==
  [kind |-> "reject", ok |-> FALSE, status |-> "", statusText |-> "",
   message |-> message]

Response(ok, status, statusText) ==
  [kind |-> "response", ok |-> ok, status |-> status,
   statusText |-> statusText, message |-> <<>>]

Fetched ==
  { Rejection(<<"Failed to fetch">>), Rejection(<<>>),
    Response(TRUE, "200", "OK"), Response(FALSE, "404", "Not Found") }

\* The outcome of await response.json(): a rejection (the body is no JSON)
\* or a value.  message is the value's message property, items its elements
\* (an array) or its list property (an object).
Json(type, message, items) ==
  [type |-> type, message |-> message, items |-> items]

NotJson == Json("invalid", "", <<>>)
JsonNull == Json("null", "", <<>>)
JsonObject == Json("object", "", <<>>)

Place1 ==
  [lat |-> 1, lon |-> 1, name |-> "Paris", state |-> "", country |-> "FR"]
Place2 ==
  [lat |-> 2, lon |-> 2, name |-> "Paris", state |-> "Texas", country |-> "US"]
NullLocation ==
  [lat |-> 0, lon |-> 0, name |-> "null", state |-> "", country |-> ""]

ErrorBodies == {NotJson, JsonObject, Json("object", "city not found", <<>>)}

GeocodeBodies ==
  { NotJson, JsonObject, Json("array", "", <<>>),
    Json("array", "", <<Place1>>), Json("array", "", <<Place1, Place2>>),
    Json("array", "", <<Place1, NullLocation>>) }

WeatherBodies == {NotJson, JsonNull, JsonObject}

ForecastBodies ==
  {NotJson, JsonNull, JsonObject, Json("object", "", <<"noon">>)}

\* ---- the async functions

\* What a step of an async function comes to: it awaits again, throws, or
\* returns a value.
Awaits(stage) == [done |-> "await", stage |-> stage, message |-> <<>>, value |-> JsonNull]
Throws(message) == [done |-> "throw", stage |-> "", message |-> message, value |-> JsonNull]
Returns(value) == [done |-> "return", stage |-> "", message |-> <<>>, value |-> value]

\* fetchFromAPI resumed at its await of stage with what the network
\* delivered; response is the response it already holds.
fetchFromAPI(stage, response, delivered) ==
  IF stage = "fetch"
  THEN IF delivered.kind = "reject" THEN Throws(delivered.message)
       ELSE IF ~delivered.ok THEN Awaits("errorDetails")
       ELSE Awaits("json")
  ELSE IF stage = "errorDetails"
  THEN LET errorDetails ==
             IF delivered.type = "object" /\ delivered.message # ""
             THEN <<" (", delivered.message, ")">> ELSE <<>>
       IN Throws(<<"Request failed: ", response.status, " ",
                   response.statusText>> \o errorDetails)
  ELSE IF delivered.type = "invalid"
       THEN Throws(<<"Unexpected token">>)
       ELSE Returns(delivered)

\* geocodeCity once fetchFromAPI has thrown or returned.
geocodeCity(fetched) ==
  IF fetched.done = "throw" THEN fetched
  ELSE IF fetched.value.type # "array" \/ Len(fetched.value.items) = 0
  THEN Throws(<<"Location not found. Please check spelling.">>)
  ELSE fetched

formatLocationName(location) ==
  <<location.name>>
    \o (IF location.state # "" THEN <<", ", location.state>> ELSE <<>>)
    \o <<", ", location.country>>

\* The option populatePlaceSelect appends: the place that JSON.parse gives
\* back from its value, and its text.
PlaceOption(location) ==
  [value |-> [latitude |-> location.lat, longitude |-> location.lon,
              name |-> location.name, state |-> location.state,
              country |-> location.country],
   textContent |-> formatLocationName(location)]

\* The first element of locations that is null, whose lat cannot be read.
FirstNull(locations) ==
  IF \E i \in 1..Len(locations) : locations[i] = NullLocation
  THEN CHOOSE i \in 1..Len(locations) :
         /\ locations[i] = NullLocation
         /\ \A j \in 1..(i - 1) : locations[j] # NullLocation
  ELSE 0

\* populatePlaceSelect: the DOM it leaves, and whether it threw.
populatePlaceSelect(d, locations) ==
  LET stop == FirstNull(locations)
      count == IF stop = 0 THEN Len(locations) ELSE stop - 1
      filled == [d EXCEPT !.options = [i \in 1..count |-> PlaceOption(locations[i])],
                          !.selectedIndex = IF count > 0 THEN 1 ELSE 0]
  IN IF stop = 0
     THEN [dom |-> showPlaceSelect(filled, TRUE), threw |-> FALSE, message |-> <<>>]
     ELSE [dom |-> filled, threw |-> TRUE,
           message |-> <<"Cannot read properties of null">>]

getSelectedPlace(d) == d.options[d.selectedIndex].value

displayCurrentWeather(d, weatherData, place) ==
  IF weatherData.type = "null"
  THEN [dom |-> d, threw |-> TRUE,
        message |-> <<"Cannot read properties of null">>]
  ELSE [dom |-> [d EXCEPT !.cityName =
                            <<place.name>> \o (IF place.state # ""
                                               THEN <<", ", place.state>>
                                               ELSE <<>>),
                          !.weatherCardHidden = FALSE],
        threw |-> FALSE, message |-> <<>>]

displayForecast(d, forecastData) ==
  IF forecastData.type = "null"
  THEN [dom |-> d, threw |-> TRUE,
        message |-> <<"Cannot read properties of null">>]
  ELSE IF Len(forecastData.items) = 0
  THEN [dom |-> d, threw |-> FALSE, message |-> <<>>]
  ELSE [dom |-> [d EXCEPT !.forecastGrid = Len(forecastData.items),
                          !.forecastHidden = FALSE],
        threw |-> FALSE, message |-> <<>>]

\* error.message || fallback
MessageOr(message, fallback) == IF message # <<>> THEN message ELSE fallback

\* A function awaiting a request: fetchWeatherForPlace called by the change
\* listener, or executeSearch, which awaits geocodeCity and then
\* fetchWeatherForPlace.
Pipeline(caller, awaiting, place, city) ==
  [caller |-> caller, awaiting |-> awaiting, stage |-> "fetch",
   response |-> Rejection(<<>>), place |-> place, city |-> city]

RemoveAt(seq, i) == SubSeq(seq, 1, i - 1) \o SubSeq(seq, i + 1, Len(seq))

\* The catch block of fetchWeatherForPlace leaving the loading state on.
fetchWeatherForPlaceCatch_KeepsLoading(d, message) ==
  displayError(d, MessageOr(message, <<"Failed to fetch weather data.">>))

\* The catch block of fetchWeatherForPlace.
fetchWeatherForPlaceCatch(d, message) ==
  displayError(setLoadingState(d, FALSE, ""),
               MessageOr(message, <<"Failed to fetch weather data.">>))

\* The catch block of executeSearch.
executeSearchCatch(d, message) ==
  displayError(setLoadingState(d, FALSE, ""),
               MessageOr(message, <<"Failed to find location.">>))

\* fetchWeatherForPlace starting its request without the loading state.
fetchWeatherForPlace_NotLoading(d) == clearError(hideResults(d))

\* fetchWeatherForPlace up to its first await.
fetchWeatherForPlace(d) ==
  setLoadingState(clearError(hideResults(d)), TRUE, "Loading weather...")

\* fetchWeatherForPlace resumed with the weather: up to its second await or
\* its end.
fetchWeatherForPlaceWeather(w, i, fetched) ==
  LET p == w.pipelines[i]
      shown == displayCurrentWeather(w.dom, fetched.value, p.place)
  IN IF fetched.done = "throw"
     THEN [w EXCEPT !.dom = fetchWeatherForPlaceCatch(w.dom, fetched.message),
                    !.pipelines = RemoveAt(@, i)]
     ELSE IF shown.threw
     THEN [w EXCEPT !.dom = fetchWeatherForPlaceCatch(shown.dom, shown.message),
                    !.pipelines = RemoveAt(@, i)]
     ELSE [w EXCEPT !.dom = setLoadingState(shown.dom, TRUE, "Loading forecast..."),
                    !.pipelines[i] = Pipeline(p.caller, "forecast", p.place, p.city)]

\* fetchWeatherForPlace resumed with the forecast: up to its end, and to the
\* end of the executeSearch that awaits it.
fetchWeatherForPlaceForecast(w, i, fetched) ==
  LET shown == displayForecast(w.dom, fetched.value)
  IN IF fetched.done = "throw"
     THEN [w EXCEPT !.dom = fetchWeatherForPlaceCatch(w.dom, fetched.message),
                    !.pipelines = RemoveAt(@, i)]
     ELSE IF shown.threw
     THEN [w EXCEPT !.dom = fetchWeatherForPlaceCatch(shown.dom, shown.message),
                    !.pipelines = RemoveAt(@, i)]
     ELSE [w EXCEPT !.dom = setLoadingState(shown.dom, FALSE, ""),
                    !.pipelines = RemoveAt(@, i)]

\* executeSearch up to its await of geocodeCity, or to its return.
executeSearch(w) ==
  LET cleared == showPlaceSelect(hideResults(clearError(w.dom)), FALSE)
      validation == validateCityInput(cleared.cityInput)
  IN IF ~validation.valid
     THEN [w EXCEPT !.dom = displayError(cleared, validation.error)]
     ELSE [w EXCEPT !.dom = setLoadingState(cleared, TRUE, "Searching location..."),
                    !.pipelines = Append(@, Pipeline("executeSearch", "geocode",
                                                     PlaceOption(NullLocation).value,
                                                     validation.city))]

\* executeSearch resumed with the locations: up to the first await of the
\* fetchWeatherForPlace it calls, or to its end.
executeSearchLocations(w, i, fetched) ==
  LET p == w.pipelines[i]
      locations == geocodeCity(fetched)
      populated == populatePlaceSelect(w.dom, locations.value.items)
      ready == setLoadingState(populated.dom, FALSE, "")
  IN IF locations.done = "throw"
     THEN [w EXCEPT !.dom = executeSearchCatch(w.dom, locations.message),
                    !.pipelines = RemoveAt(@, i)]
     ELSE IF populated.threw
     THEN [w EXCEPT !.dom = executeSearchCatch(populated.dom, populated.message),
                    !.pipelines = RemoveAt(@, i)]
     ELSE [w EXCEPT !.dom = fetchWeatherForPlace(ready),
                    !.pipelines[i] = Pipeline(p.caller, "weather",
                                              getSelectedPlace(ready), p.city)]

\* The function awaiting in pipeline i resumed with what the network
\* delivered.
Resume(w, i, delivered) ==
  LET p == w.pipelines[i]
      fetched == fetchFromAPI(p.stage, p.response, delivered)
  IN IF fetched.done = "await"
     THEN [w EXCEPT !.pipelines[i] =
                      [p EXCEPT !.stage = fetched.stage, !.response = delivered]]
     ELSE IF p.awaiting = "geocode" THEN executeSearchLocations(w, i, fetched)
     ELSE IF p.awaiting = "weather" THEN fetchWeatherForPlaceWeather(w, i, fetched)
     ELSE fetchWeatherForPlaceForecast(w, i, fetched)

\* Whether what is delivered makes the run fail: the request fails, the
\* body is no JSON, no location is found, or the data cannot be read.
Fails(p, delivered) ==
  IF p.stage = "fetch" THEN delivered.kind = "reject"
  ELSE IF p.stage = "errorDetails" THEN TRUE
  ELSE \/ delivered.type = "invalid"
       \/ p.awaiting = "geocode" /\ delivered.type # "array"
       \/ p.awaiting = "geocode" /\ delivered.items = <<>>
       \/ p.awaiting = "geocode" /\ FirstNull(delivered.items) # 0
       \/ p.awaiting # "geocode" /\ delivered.type = "null"

\* ----------------------------------------------------------------- commands

Init ==
  /\ calculatorState = clearCalculator(InitialState)
  /\ script = FreshScript
  /\ stopwatchState = InitialStopwatchState
  /\ page = InitialPage
  /\ watch = InitialWatch
  /\ weatherDom = InitialDom
  /\ pipelines = <<>>
  /\ weatherLog = "none"

Digit(digit) ==
  /\ Len(appendDigit(calculatorState, digit).currentInput) <= MaxLen
  /\ calculatorState' = appendDigit(calculatorState, digit)
  /\ script' = ScriptAfterDigit(script, digit)
  /\ UNCHANGED <<stopwatchVars, weatherVars>>

DecimalPoint ==
  /\ Len(addDecimalPoint(calculatorState).currentInput) <= MaxLen
  /\ calculatorState' = addDecimalPoint(calculatorState)
  /\ script' = ScriptAfterEdit(script)
  /\ UNCHANGED <<stopwatchVars, weatherVars>>

Sign ==
  /\ calculatorState' = toggleSign(calculatorState)
  /\ script' = ScriptAfterEdit(script)
  /\ UNCHANGED <<stopwatchVars, weatherVars>>

Backspace ==
  /\ calculatorState' = removeLastCharacter(calculatorState)
  /\ script' = ScriptAfterEdit(script)
  /\ UNCHANGED <<stopwatchVars, weatherVars>>

Clear ==
  /\ calculatorState' = clearCalculator(calculatorState)
  /\ script' = FreshScript
  /\ UNCHANGED <<stopwatchVars, weatherVars>>

Operator(operator, lim) ==
  /\ OperatorWithin(calculatorState, lim)
  /\ calculatorState' = selectOperator(calculatorState, operator)
  /\ script' = ScriptAfterOperator(script, calculatorState, operator, lim)
  /\ UNCHANGED <<stopwatchVars, weatherVars>>

Equals(lim) ==
  /\ EqualsWithin(calculatorState, lim)
  /\ calculatorState' = calculateResult(calculatorState)
  /\ script' = ScriptAfterEquals(script, calculatorState, lim)
  /\ UNCHANGED <<stopwatchVars, weatherVars>>

Next ==
  \/ \E digit \in Digits : Digit(digit)
  \/ DecimalPoint
  \/ Sign
  \/ Backspace
  \/ Clear
  \/ \E operator \in Operators : Operator(operator, Limits)
  \/ Equals(Limits)

Spec == Init /\ [][Next]_vars

\* Few commands, wide numeric range: digits, division, Equals and Clear.
NextTiny ==
  \/ \E digit \in TinyDigits : Digit(digit)
  \/ Operator("/", TinyLimits)
  \/ Equals(TinyLimits)
  \/ Clear

SpecTiny == Init /\ [][NextTiny]_vars

\* Multiplication of typed powers of ten at the end of the double range.
HugeDigit(digit) ==
  /\ HugeInput(appendDigit(calculatorState, digit).currentInput)
  /\ calculatorState' = appendDigit(calculatorState, digit)
  /\ script' = ScriptAfterDigit(script, digit)
  /\ UNCHANGED <<stopwatchVars, weatherVars>>

HugeOperator ==
  /\ HugeOperatorWithin(calculatorState)
  /\ calculatorState' = selectOperator(calculatorState, "*")
  /\ script' = ScriptAfterOperator(script, calculatorState, "*", Limits)
  /\ UNCHANGED <<stopwatchVars, weatherVars>>

HugeEquals ==
  /\ HugeEqualsWithin(calculatorState)
  /\ calculatorState' = calculateResult(calculatorState)
  /\ script' = ScriptAfterEquals(script, calculatorState, Limits)
  /\ UNCHANGED <<stopwatchVars, weatherVars>>

NextHuge ==
  \/ \E digit \in TinyDigits : HugeDigit(digit)
  \/ HugeOperator
  \/ HugeEquals
  \/ Clear

SpecHuge == Init /\ [][NextHuge]_vars

\* ------------------------------------------------------ stopwatch events

World == [state |-> stopwatchState, page |-> page]

\* Handles a pending frame may carry in an explored state.
FrameIds == 1..(MaxFrames + 2)

FramesWithin(w) == Cardinality(w.page.frames) <= MaxFrames

WatchAfterToggle == [watch EXCEPT !.visibleOnly = @ /\ ~page.hidden]

WatchAfterReset ==
  IF stopwatchState.isRunning THEN watch
  ELSE [watch EXCEPT !.ran = 0, !.visibleOnly = TRUE]

\* Click on the Start / Pause / Resume button.
StartPauseClick ==
  LET w == toggleStartPause(World)
  IN /\ FramesWithin(w)
     /\ stopwatchState' = w.state
     /\ page' = w.page
     /\ watch' = WatchAfterToggle
     /\ UNCHANGED <<calculatorVars, weatherVars>>

\* Click on the Reset button, which delivers no click while disabled.
ResetClick ==
  LET w == resetStopwatch(World)
  IN /\ ~page.resetDisabled
     /\ stopwatchState' = w.state
     /\ page' = w.page
     /\ watch' = WatchAfterReset
     /\ UNCHANGED <<calculatorVars, weatherVars>>

Key(key) ==
  LET w == keydownHandler(World, key)
  IN /\ FramesWithin(w)
     /\ stopwatchState' = w.state
     /\ page' = w.page
     /\ watch' = IF key = " " THEN WatchAfterToggle
                 ELSE IF ToLowerCase(key) = "r" THEN WatchAfterReset
                 ELSE watch
     /\ UNCHANGED <<calculatorVars, weatherVars>>

\* The browser runs a pending animation frame of a visible page.
Frame(id) ==
  LET taken == [World EXCEPT !.page.frames = @ \ {id}]
      w == animationTick(taken)
  IN /\ id \in page.frames
     /\ ~page.hidden
     /\ stopwatchState' = w.state
     /\ page' = w.page
     /\ watch' = [watch EXCEPT !.refreshed = @ \/ stopwatchState.isRunning]
     /\ UNCHANGED <<calculatorVars, weatherVars>>

\* The page is hidden or shown again.
VisibilityChange ==
  LET w == visibilityChangeHandler([World EXCEPT !.page.hidden = ~@])
  IN /\ FramesWithin(w)
     /\ stopwatchState' = w.state
     /\ page' = w.page
     /\ UNCHANGED <<watch, calculatorVars, weatherVars>>

\* Time passes between two events.
Advance(d) ==
  /\ page.now + d <= MaxClock
  /\ page' = [page EXCEPT !.now = @ + d]
  /\ watch' = [watch EXCEPT
                 !.ran = IF stopwatchState.isRunning /\ ~page.hidden
                         THEN @ + d ELSE @,
                 !.refreshed = FALSE]
  /\ UNCHANGED <<stopwatchState, calculatorVars, weatherVars>>

NextStopwatch ==
  \/ StartPauseClick
  \/ ResetClick
  \/ \E key \in Keys : Key(key)
  \/ \E id \in FrameIds : Frame(id)
  \/ VisibilityChange
  \/ \E d \in ClockSteps : Advance(d)

SpecStopwatch == Init /\ [][NextStopwatch]_vars

\* A visible page runs its pending animation frame in the end.
SpecStopwatchLive ==
  SpecStopwatch /\ WF_vars(\E id \in FrameIds : Frame(id))

\* -------------------------------------------------------- weather events

Weather == [dom |-> weatherDom, pipelines |-> pipelines]

\* weatherLog after a handler that may have started a run.
LogAfterStart(w) ==
  IF Len(w.pipelines) > Len(pipelines) THEN "running"
  ELSE "invalid"

\* The user edits the city input.
TypeCity(city) ==
  /\ ~weatherDom.cityInputDisabled
  /\ city # weatherDom.cityInput
  /\ weatherDom' = [weatherDom EXCEPT !.cityInput = city]
  /\ UNCHANGED <<pipelines, weatherLog, calculatorVars, stopwatchVars>>

\* Click on the search button.
SearchClick ==
  LET w == executeSearch(Weather)
  IN /\ ~weatherDom.searchBtnDisabled
     /\ Len(w.pipelines) <= MaxPipelines
     /\ weatherDom' = w.dom
     /\ pipelines' = w.pipelines
     /\ weatherLog' = LogAfterStart(w)
     /\ UNCHANGED <<calculatorVars, stopwatchVars>>

\* Enter pressed in the city input.
EnterKey ==
  LET w == executeSearch(Weather)
  IN /\ ~weatherDom.cityInputDisabled
     /\ Len(w.pipelines) <= MaxPipelines
     /\ weatherDom' = w.dom
     /\ pipelines' = w.pipelines
     /\ weatherLog' = LogAfterStart(w)
     /\ UNCHANGED <<calculatorVars, stopwatchVars>>

\* The user selects another place.
PlaceChange(index) ==
  LET selected == [weatherDom EXCEPT !.selectedIndex = index]
  IN /\ ~weatherDom.placeSelectDisabled
     /\ ~weatherDom.placeSelectHidden
     /\ index \in 1..Len(weatherDom.options)
     /\ index # weatherDom.selectedIndex
     /\ Len(pipelines) < MaxPipelines
     /\ weatherDom' = fetchWeatherForPlace(selected)
     /\ pipelines' = Append(pipelines,
                            Pipeline("change", "weather",
                                     getSelectedPlace(selected), <<>>))
     /\ weatherLog' = "running"
     /\ UNCHANGED <<calculatorVars, stopwatchVars>>

\* What the network may deliver to pipeline p.
Deliveries(p) ==
  IF p.stage = "fetch" THEN Fetched
  ELSE IF p.stage = "errorDetails" THEN ErrorBodies
  ELSE IF p.awaiting = "geocode" THEN GeocodeBodies
  ELSE IF p.awaiting = "weather" THEN WeatherBodies
  ELSE ForecastBodies

\* The network delivers to the request pipeline i awaits.
Respond(i) ==
  /\ i \in 1..Len(pipelines)
  /\ \E delivered \in Deliveries(pipelines[i]) :
       LET w == Resume(Weather, i, delivered)
       IN /\ weatherDom' = w.dom
          /\ pipelines' = w.pipelines
          /\ weatherLog' = IF Fails(pipelines[i], delivered) THEN "failed"
                           ELSE IF Len(w.pipelines) < Len(pipelines)
                           THEN "succeeded"
                           ELSE "running"
  /\ UNCHANGED <<calculatorVars, stopwatchVars>>

NextWeather ==
  \/ \E city \in Cities : TypeCity(city)
  \/ SearchClick
  \/ EnterKey
  \/ \E index \in 1..MaxPlaces : PlaceChange(index)
  \/ \E i \in 1..MaxPipelines : Respond(i)

SpecWeather == Init /\ [][NextWeather]_vars

\* =================================================================== claims

\* The state calculateResult and selectOperator leave on a non-finite result.
IsErrorState(s) ==
  /\ s.currentInput = ErrorString /\ s.isError
  /\ s.firstOperand = Null /\ s.secondOperand = Null /\ s.operator = NoOperator

\* An optional "-", at least one digit, at most one "." and further digits.
IsPartialNumber(str) ==
  LET body == IF StartsWith(str, "-") THEN SliceFrom1(str) ELSE str
      dot == IndexOf(body, ".")
      int == IF dot = 0 THEN body ELSE SubSeq(body, 1, dot - 1)
      frac == IF dot = 0 THEN <<>> ELSE SubSeq(body, dot + 1, Len(body))
  IN Len(int) >= 1 /\ AllDigits(int) /\ AllDigits(frac)

\* C1: Clear, invoked in any reachable state (the Error state and the
\* post-equals state included), yields exactly the initial state.
C1_ClearYieldsInitialState ==
  clearCalculator(calculatorState) =
    [firstOperand |-> Null, secondOperand |-> Null, operator |-> NoOperator,
     currentInput |-> <<"0">>, hasCalculated |-> FALSE, isError |-> FALSE]

\* Clear applies in a post-equals state where every field but isError
\* differs from its initial value.
C1_Witness ==
  /\ calculatorState.hasCalculated
  /\ calculatorState.firstOperand # Null
  /\ calculatorState.secondOperand # Null
  /\ calculatorState.operator # NoOperator
  /\ calculatorState.currentInput # <<"0">>

\* C2: in every reachable state isError is true if and only if currentInput
\* is exactly "Error".
C2_ErrorFlagIffErrorText ==
  calculatorState.isError <=> (calculatorState.currentInput = ErrorString)

\* The Error state is reached.
C2_Witness ==
  /\ calculatorState.isError
  /\ calculatorState.currentInput = ErrorString

\* C3: in every reachable state operator and firstOperand are both null or
\* both set.
C3_PendingOperationIsWhole ==
  (calculatorState.operator = NoOperator) <=> (calculatorState.firstOperand = Null)

\* Both are set while the second operand is typed, and after Equals.
C3_Witness ==
  /\ calculatorState.operator # NoOperator
  /\ calculatorState.firstOperand # Null
  /\ calculatorState.hasCalculated

\* C4: in every reachable state currentInput is non-empty and is either
\* "Error" or a valid partial number (optional "-", digits, at most one ".",
\* digits).
C4_InputIsPartialNumberOrError ==
  /\ Len(calculatorState.currentInput) >= 1
  /\ \/ calculatorState.currentInput = ErrorString
     \/ IsPartialNumber(calculatorState.currentInput)

\* C5 as claimed: in the Error state DecimalPoint, Operator, Sign, Backspace
\* and Equals all leave the calculator in the Error state.
C5_ErrorLeftOnlyByDigitOrClear ==
  checkErrorState(calculatorState) =>
    /\ checkErrorState(addDecimalPoint(calculatorState))
    /\ \A operator \in Operators :
         checkErrorState(selectOperator(calculatorState, operator))
    /\ checkErrorState(toggleSign(calculatorState))
    /\ checkErrorState(removeLastCharacter(calculatorState))
    /\ checkErrorState(calculateResult(calculatorState))

\* C5 amended: in the Error state Operator, Sign, Backspace and Equals leave
\* the calculator in the Error state (isError true, currentInput "Error");
\* Digit, DecimalPoint and Clear leave it.
C5_ErrorLeftOnlyByDigitDotOrClear ==
  checkErrorState(calculatorState) =>
    /\ \A operator \in Operators :
         LET r == selectOperator(calculatorState, operator)
         IN r.isError /\ r.currentInput = ErrorString
    /\ LET r == toggleSign(calculatorState)
       IN r.isError /\ r.currentInput = ErrorString
    /\ LET r == removeLastCharacter(calculatorState)
       IN r.isError /\ r.currentInput = ErrorString
    /\ LET r == calculateResult(calculatorState)
       IN r.isError /\ r.currentInput = ErrorString
    /\ ~checkErrorState(addDecimalPoint(calculatorState))
    /\ \A digit \in Digits : ~checkErrorState(appendDigit(calculatorState, digit))
    /\ ~checkErrorState(clearCalculator(calculatorState))

\* The commands apply in the Error state.
C5_Witness == IsErrorState(calculatorState)

\* Equals is pressed with a pending division of a nonzero dividend by a
\* right-hand operand that reads as 0.
DivisionByZeroPending(s) ==
  /\ ~checkErrorState(s)
  /\ s.operator = "/"
  /\ s.firstOperand.kind = "num" /\ s.firstOperand.n # 0
  /\ (s.hasCalculated /\ s.secondOperand # Null) \/ InRange(s.currentInput)
  /\ EqualsOperand(s) = Zero

\* C6: Equals with a pending division of a nonzero dividend by 0 enters the
\* Error state, whatever chain of operators produced the dividend.
C6_DivisionByZeroEntersError ==
  DivisionByZeroPending(calculatorState) =>
    IsErrorState(calculateResult(calculatorState))

\* A dividend produced by operator chaining is about to be divided by 0.
C6_Witness ==
  /\ DivisionByZeroPending(calculatorState)
  /\ script.phase = "b" /\ script.ops = 2 /\ script.entry = "digit"

\* C7: a, op, b, Equals entered from the fresh state (finite result) leaves
\* currentInput = the formatted apply(a, op, b), firstOperand = apply(a, op, b),
\* secondOperand = b, operator = op, hasCalculated true and isError false.
C7_EqualsComputesAndStores ==
  (script.phase = "eq" /\ script.ops = 1 /\ script.equals = 1) =>
    /\ calculatorState.currentInput = formatDisplayNumber(script.acc)
    /\ calculatorState.firstOperand = script.acc
    /\ calculatorState.secondOperand = script.b
    /\ calculatorState.operator = script.op
    /\ calculatorState.hasCalculated
    /\ ~calculatorState.isError

\* 3 * 3 = displays 9.
C7_Witness ==
  /\ script.phase = "eq" /\ script.ops = 1 /\ script.equals = 1
  /\ script.op = "*" /\ script.b = Num(3, 1)
  /\ calculatorState.currentInput = <<"9">>

\* C8: after a op b =, every further Equals applies the same operator and the
\* same right-hand operand b to the previous result and leaves operator and
\* secondOperand unchanged.
C8_RepeatedEqualsReapplies ==
  (script.phase = "eq" /\ script.ops = 1 /\ script.equals >= 2) =>
    /\ calculatorState.firstOperand = script.acc
    /\ calculatorState.currentInput = formatDisplayNumber(script.acc)
    /\ calculatorState.operator = script.op
    /\ calculatorState.secondOperand = script.b
    /\ calculatorState.hasCalculated

\* 3 + 3 = = = displays 6, 9, 12.
C8_Witness ==
  /\ script.phase = "eq" /\ script.ops = 1 /\ script.equals = 3
  /\ script.op = "+" /\ script.b = Num(3, 1)
  /\ calculatorState.currentInput = <<"1", "2">>

\* C9: a op1 b op2 c = entered from the fresh state: right after op2 is
\* pressed firstOperand = apply(a, op1, b), operator = op2, secondOperand is
\* null and currentInput = "0"; after Equals the display is the formatted
\* apply(apply(a, op1, b), op2, c).
C9_ChainingEvaluatesLeftToRight ==
  /\ (script.phase = "b" /\ script.ops = 2 /\ script.entry = "none") =>
       /\ calculatorState.firstOperand = script.acc
       /\ calculatorState.operator = script.op
       /\ calculatorState.secondOperand = Null
       /\ calculatorState.currentInput = <<"0">>
  /\ (script.phase = "eq" /\ script.ops = 2 /\ script.equals = 1) =>
       calculatorState.currentInput = formatDisplayNumber(script.acc)

\* C10: in every reachable state, toggleSign applied twice in a row returns
\* currentInput to the string it was and changes no other field.
C10_ToggleSignTwiceIsIdentity ==
  toggleSign(toggleSign(calculatorState)) = calculatorState

\* C11: after a op b = (result r), pressing an operator op2 leaves
\* firstOperand = r, operator = op2, secondOperand null, hasCalculated false
\* and currentInput = "0", so that typing a digit c and Equals then displays
\* the formatted apply(r, op2, c).
C11_OperatorAfterEqualsContinues ==
  (script.phase = "eq" /\ script.ops = 1 /\ script.equals = 1) =>
    \A op2 \in Operators :
      OperatorWithin(calculatorState, Limits) =>
        LET afterOperator == selectOperator(calculatorState, op2)
        IN /\ afterOperator.firstOperand = script.acc
           /\ afterOperator.operator = op2
           /\ afterOperator.secondOperand = Null
           /\ ~afterOperator.hasCalculated
           /\ afterOperator.currentInput = <<"0">>
           /\ \A c \in Digits :
                LET typed == appendDigit(afterOperator, c)
                IN EqualsWithin(typed, Limits) =>
                     calculateResult(typed).currentInput =
                       formatDisplayNumber(
                         performCalculation(script.acc, op2, ToNumber(<<c>>)))

\* C12: appendDigit(d) in the Error state or in the post-equals state yields
\* exactly the state of Clear followed by appendDigit(d): firstOperand,
\* secondOperand and operator null, hasCalculated and isError false,
\* currentInput = d.
C12_DigitAfterErrorOrEqualsStartsFresh ==
  (checkErrorState(calculatorState) \/ calculatorState.hasCalculated) =>
    \A digit \in Digits :
      /\ appendDigit(calculatorState, digit) =
           appendDigit(clearCalculator(calculatorState), digit)
      /\ appendDigit(calculatorState, digit) =
           [firstOperand |-> Null, secondOperand |-> Null,
            operator |-> NoOperator, currentInput |-> <<digit>>,
            hasCalculated |-> FALSE, isError |-> FALSE]

\* 3 + 3 = has displayed 6 and a digit may follow.
C12_Witness ==
  /\ calculatorState.hasCalculated
  /\ calculatorState.currentInput = <<"6">>
  /\ script.phase = "eq" /\ script.equals = 1

\* C13: for every sequence of Digit commands entered from the fresh state,
\* currentInput is the concatenation of the digits typed with leading zeros
\* collapsed ("0" while nothing but zeros was typed), and no other field of
\* the state has changed.
C13_DigitsConcatenate ==
  script.plain =>
    /\ calculatorState.currentInput =
         (IF script.typed = <<>> THEN <<"0">> ELSE script.typed)
    /\ calculatorState.firstOperand = Null
    /\ calculatorState.secondOperand = Null
    /\ calculatorState.operator = NoOperator
    /\ ~calculatorState.hasCalculated
    /\ ~calculatorState.isError

\* 0, 3, 0 was typed and reads "30".
C13_Witness ==
  /\ script.plain
  /\ script.typed = <<"3", "0">>
  /\ calculatorState.currentInput = <<"3", "0">>

\* An operator is pending and currentInput is "0".
OperatorPendingNoInput(s) ==
  /\ ~checkErrorState(s)
  /\ s.operator # NoOperator
  /\ s.currentInput = <<"0">>

\* C14 as claimed: when an operator is pending and currentInput is "0",
\* selectOperator(op) only replaces operator: firstOperand, secondOperand,
\* currentInput, hasCalculated and isError are unchanged.
C14_OperatorChangeOnlyReplacesOperator ==
  OperatorPendingNoInput(calculatorState) =>
    \A op \in Operators :
      selectOperator(calculatorState, op) = [calculatorState EXCEPT !.operator = op]

\* C14 amended: when an operator is pending and currentInput is "0",
\* selectOperator(op) replaces operator by op and performs no arithmetic:
\* firstOperand, currentInput and isError are unchanged; outside the
\* post-equals state secondOperand and hasCalculated are unchanged as well,
\* and in the post-equals state (a result displayed as "0") hasCalculated
\* becomes false and secondOperand null.
C14_OperatorChangeKeepsOperands ==
  OperatorPendingNoInput(calculatorState) =>
    \A op \in Operators :
      selectOperator(calculatorState, op) =
        IF calculatorState.hasCalculated
        THEN [calculatorState EXCEPT !.operator = op, !.hasCalculated = FALSE,
                                     !.secondOperand = Null]
        ELSE [calculatorState EXCEPT !.operator = op]

\* An operator was pressed after a nonzero first operand and nothing was
\* typed since.
C14_Witness ==
  /\ OperatorPendingNoInput(calculatorState)
  /\ ~calculatorState.hasCalculated
  /\ calculatorState.firstOperand = Num(3, 1)
  /\ script.phase = "b" /\ script.entry = "none"

\* C15: in the Error state selectOperator, calculateResult, toggleSign and
\* removeLastCharacter leave every field of the state unchanged.
C15_ErrorStateNoOps ==
  checkErrorState(calculatorState) =>
    /\ \A op \in Operators : selectOperator(calculatorState, op) = calculatorState
    /\ calculateResult(calculatorState) = calculatorState
    /\ toggleSign(calculatorState) = calculatorState
    /\ removeLastCharacter(calculatorState) = calculatorState

\* The Error state is displayed with the error styling.
C15_Witness ==
  /\ checkErrorState(calculatorState)
  /\ updateDisplay(calculatorState).error

\* C16: removeLastCharacter leaves the state unchanged in the post-equals
\* state; otherwise, outside the Error state, it removes exactly the last
\* character of currentInput, or sets currentInput to "0" when the remainder
\* would be empty or just "-"; it never changes firstOperand, secondOperand,
\* operator, hasCalculated or isError.
C16_BackspaceRemovesLastCharacter ==
  LET s == calculatorState
      r == removeLastCharacter(s)
      rest == SliceDropLast(s.currentInput)
  IN /\ s.hasCalculated => r = s
     /\ (~s.hasCalculated /\ ~checkErrorState(s)) =>
          r.currentInput = IF rest = <<>> \/ rest = <<"-">> THEN <<"0">> ELSE rest
     /\ r.firstOperand = s.firstOperand
     /\ r.secondOperand = s.secondOperand
     /\ r.operator = s.operator
     /\ r.hasCalculated = s.hasCalculated
     /\ r.isError = s.isError

\* A negative one-digit input, whose remainder would be "-".
C16_Witness ==
  /\ ~calculatorState.hasCalculated
  /\ calculatorState.currentInput = <<"-", "3">>

\* C17: in every reachable state secondOperand # null implies hasCalculated,
\* so the expression written by updateDisplay consists of the formatted
\* firstOperand and the operator only and never shows a second operand.
C17_SecondOperandOnlyAfterEquals ==
  /\ calculatorState.secondOperand # Null => calculatorState.hasCalculated
  /\ updateDisplay(calculatorState).expression =
       (IF calculatorState.firstOperand # Null
        THEN <<formatDisplayNumber(calculatorState.firstOperand)>> ELSE <<>>)
       \o (IF calculatorState.operator # NoOperator
           THEN <<<<calculatorState.operator>>>> ELSE <<>>)

\* After a repeated Equals secondOperand holds the operand in use.
C17_Witness ==
  /\ calculatorState.secondOperand # Null
  /\ calculatorState.hasCalculated
  /\ script.phase = "eq" /\ script.equals = 2

\* Number of occurrences of c in str.
CountOf(str, c) == Cardinality({i \in 1..Len(str) : str[i] = c})

\* C18: in every reachable non-Error state currentInput contains at most one
\* ".", and pressing DecimalPoint twice in a row leaves exactly one ".": the
\* second press changes nothing.
C18_AtMostOneDecimalPoint ==
  /\ ~checkErrorState(calculatorState) =>
       CountOf(calculatorState.currentInput, ".") <= 1
  /\ LET once == addDecimalPoint(calculatorState)
         twice == addDecimalPoint(once)
     IN /\ CountOf(once.currentInput, ".") = 1
        /\ twice = once

\* Digits were typed after a decimal point.
C18_Witness ==
  /\ ~calculatorState.hasCalculated
  /\ calculatorState.currentInput = <<"0", ".", "3">>

\* C19: in every reachable state with hasCalculated = true, firstOperand,
\* operator and secondOperand are all non-null and isError is false.
C19_CalculatedStateIsComplete ==
  calculatorState.hasCalculated =>
    /\ calculatorState.firstOperand # Null
    /\ calculatorState.operator # NoOperator
    /\ calculatorState.secondOperand # Null
    /\ ~calculatorState.isError

\* C20: in every reachable state with hasCalculated = true, currentInput is
\* the formatted value of firstOperand: the number shown is the number the
\* next Equals or Operator computes with.
C20_DisplayedResultIsFirstOperand ==
  calculatorState.hasCalculated =>
    calculatorState.currentInput = formatDisplayNumber(calculatorState.firstOperand)

\* ---------------------------------------------------------------- stopwatch

\* A step of resetStopwatch on a stopwatch that is not running.
ResetStep ==
  /\ ~stopwatchState.isRunning
  /\ (ResetClick \/ Key("r") \/ Key("R"))

\* C21: resetStopwatch on a running stopwatch changes nothing, whether it is
\* reached through the button or through the R key; on a stopwatch that is
\* not running it sets accumulatedTime, startPerformanceTime and rafId to 0
\* and leaves isRunning false; and no step other than such a reset makes
\* accumulatedTime smaller.
C21_ResetOnlyWhenStopped ==
  /\ [](IF stopwatchState.isRunning
        THEN /\ resetStopwatch(World) = World
             /\ keydownHandler(World, "r") = World
             /\ keydownHandler(World, "R") = World
        ELSE /\ resetStopwatch(World).state = InitialStopwatchState
             /\ keydownHandler(World, "r").state = InitialStopwatchState
             /\ keydownHandler(World, "R").state = InitialStopwatchState)
  /\ [][ResetStep \/ stopwatchState'.accumulatedTime
                       >= stopwatchState.accumulatedTime]_vars

\* A stopwatch resumed after a pause and running for a while: a reset that
\* acted here would be seen in every field.
C21_Witness ==
  /\ stopwatchState.isRunning
  /\ stopwatchState.accumulatedTime > 0
  /\ stopwatchState.startPerformanceTime > 0
  /\ stopwatchState.rafId # 0
  /\ page.now > stopwatchState.startPerformanceTime

\* C22: whatever the order of start, pause, reset, visibilitychange events
\* and animation-frame callbacks, at most one animation frame is pending, a
\* frame is pending only while isRunning is true, and rafId is nonzero
\* exactly when a frame is pending, which is then the frame rafId names.
C22_SingleAnimationLoop ==
  /\ Cardinality(page.frames) <= 1
  /\ page.frames # {} => stopwatchState.isRunning
  /\ stopwatchState.rafId # 0 <=> page.frames # {}
  /\ page.frames \subseteq {stopwatchState.rafId}

\* A loop that has ticked, was cancelled by a pause or a hidden page, and
\* was requested again.
C22_Witness ==
  /\ stopwatchState.isRunning
  /\ stopwatchState.accumulatedTime > 0
  /\ ~page.hidden
  /\ watch.refreshed
  /\ page.frames = {stopwatchState.rafId}

\* The stopwatch runs on a visible page.
RunningVisible == stopwatchState.isRunning /\ ~page.hidden

\* C23: whenever isRunning is true and the page is visible an animation
\* frame is pending and rafId names it; so, when pending frames of a visible
\* page are run in the end, a running stopwatch on a visible page whose
\* display is behind the clock is refreshed, unless it is paused or hidden
\* first.
C23_LoopNeverLost ==
  /\ [](RunningVisible =>
          stopwatchState.rafId # 0 /\ stopwatchState.rafId \in page.frames)
  /\ (RunningVisible /\ ~watch.refreshed)
       ~> (watch.refreshed \/ ~RunningVisible)

\* The page was hidden and shown again while the stopwatch ran, and the
\* display is behind the clock.
C23_Witness ==
  /\ RunningVisible
  /\ ~watch.refreshed
  /\ stopwatchState.accumulatedTime > 0
  /\ stopwatchState.startPerformanceTime > 0
  /\ page.now > stopwatchState.startPerformanceTime

\* The time the stopwatch has measured up to now.
Measured ==
  stopwatchState.accumulatedTime
    + (IF RunningVisible
       THEN page.now - stopwatchState.startPerformanceTime ELSE 0)

\* C24: with a discrete clock, and start and pause invoked only while the
\* page is visible, the time measured is the time the stopwatch was running
\* on a visible page: at a pause accumulatedTime is that time and the
\* display shows it; the time up to a hidden event is counted once and the
\* time the page stays hidden is not counted.
C24_HiddenTimeNotCounted ==
  watch.visibleOnly =>
    /\ Measured = watch.ran
    /\ ~stopwatchState.isRunning =>
         page.time = formatTime(stopwatchState.accumulatedTime)

\* A pause after the page was hidden for a while and shown again: the clock
\* is ahead of the time measured.
C24_Witness ==
  /\ watch.visibleOnly
  /\ ~stopwatchState.isRunning
  /\ stopwatchState.accumulatedTime > 0
  /\ stopwatchState.startPerformanceTime > 0
  /\ page.now - stopwatchState.startPerformanceTime
       < stopwatchState.accumulatedTime
  /\ stopwatchState.accumulatedTime < page.now

\* C25: after every handler the controls match the state: the label is
\* "Pause" iff isRunning, "Resume" iff not running with accumulatedTime > 0,
\* "Start" iff not running with accumulatedTime = 0, and the reset button is
\* disabled iff isRunning or accumulatedTime = 0; also after visibilitychange
\* events, which change accumulatedTime without updating the buttons.
C25_ControlsMatchState ==
  /\ page.startPause = "Pause" <=> stopwatchState.isRunning
  /\ page.startPause = "Resume" <=>
       ~stopwatchState.isRunning /\ stopwatchState.accumulatedTime > 0
  /\ page.startPause = "Start" <=>
       ~stopwatchState.isRunning /\ stopwatchState.accumulatedTime = 0
  /\ page.resetDisabled <=>
       stopwatchState.isRunning \/ stopwatchState.accumulatedTime = 0

\* A hidden page whose visibilitychange handler has accumulated the time of
\* a first run.
C25_Witness ==
  /\ stopwatchState.isRunning
  /\ page.hidden
  /\ stopwatchState.rafId = 0
  /\ stopwatchState.accumulatedTime > 0
  /\ stopwatchState.accumulatedTime = watch.ran
  /\ stopwatchState.startPerformanceTime = page.now

\* ------------------------------------------------------------------ weather

\* The loading state is on: the three controls are disabled.
LoadingOn ==
  /\ weatherDom.searchBtnDisabled
  /\ weatherDom.cityInputDisabled
  /\ weatherDom.placeSelectDisabled

\* The loading state is off: the three controls are enabled and the status
\* text is empty.
LoadingOff ==
  /\ ~weatherDom.searchBtnDisabled
  /\ ~weatherDom.cityInputDisabled
  /\ ~weatherDom.placeSelectDisabled
  /\ weatherDom.status = ""

\* C26: while a geocode, weather or forecast request is awaited the search
\* button, the city input and the place select are all disabled; and, as
\* disabled controls deliver no events, at most one executeSearch or
\* fetchWeatherForPlace pipeline is in progress, the fetchWeatherForPlace
\* that executeSearch hands over to included.
C26_OnePipelineWhileLoading ==
  /\ Len(pipelines) <= 1
  /\ pipelines # <<>> => LoadingOn

\* executeSearch has handed over to fetchWeatherForPlace, whose weather
\* request has answered and whose body is awaited.
C26_Witness ==
  /\ Len(pipelines) = 1
  /\ pipelines[1].caller = "executeSearch"
  /\ pipelines[1].awaiting = "weather"
  /\ pipelines[1].stage = "json"
  /\ weatherDom.status = "Loading weather..."
  /\ ~weatherDom.placeSelectHidden

\* C27: a run of executeSearch or fetchWeatherForPlace whose requests have
\* completed, each with success or failure, has ended with the loading state
\* off: the three controls enabled and the status text empty; and after a
\* failure (of the geocode request or an empty result, of the weather
\* request, of the forecast request) the error box is shown with a message.
C27_RunsEndWithLoadingOff ==
  /\ weatherLog \in {"succeeded", "failed"} => pipelines = <<>> /\ LoadingOff
  /\ weatherLog = "failed" =>
       ~weatherDom.errorHidden /\ weatherDom.errorText # <<>>

\* The forecast request failed after the weather was shown.
C27_Witness ==
  /\ weatherLog = "failed"
  /\ pipelines = <<>>
  /\ ~weatherDom.weatherCardHidden
  /\ ~weatherDom.errorHidden

====
